---------------------------- MODULE Spec2Model ----------------------------
(***************************************************************************)
(* Model of the history / normalisation / scoring / ranking core of the    *)
(* AI tools tracker (src/app.py).                                          *)
(*                                                                         *)
(* A pandas DataFrame is a record                                          *)
(*    [index : sequence of months, columns : set of tools,                 *)
(*     cells : function from the non-null <<month, tool>> cells to values] *)
(* A NaN cell is a cell of index \X columns that is not in DOMAIN cells.   *)
(* A pandas Series is [index : sequence of months, vals : function from    *)
(* the months that hold a non-null value to values].                       *)
(* A month is the ordinal of a calendar month: every producer of an index  *)
(* (resample("MS"), Timestamp(day=1), to_period("M").to_timestamp())       *)
(* yields first-of-month timestamps.                                       *)
(* A float64 is modelled exactly, as the number p * sqrt(r) / q.           *)
(***************************************************************************)
EXTENDS Integers, Sequences, FiniteSets, TLC

VARIABLES
    copy_on_write,   \* pandas build: TRUE when Copy-on-Write is in force
    \* merge_history applied to drawn inputs
    m_pc, history, new_df, merged, remerged,
    \* one run of the script after another
    pc,              \* position of the running script: "idle" between runs
    trends_now, wiki_now, use_wiki, score_hist,     \* the run's locals
    trends_file,     \* history_trends_<region>.csv: <<>> when the file does not exist
    wiki_file,       \* history_wiki.csv
    score_file,      \* history_scores_<region>.csv
    \* two invocations of the script racing on one history file
    r_pc, r_now, r_hist, r_new, last_writer,
    \* the normalisers applied to a drawn series
    n_pc, series, mm_out, z_out, zmm_out,
    \* compute_scores applied to drawn frames
    s_pc, trends_df, wiki_df, score,
    \* build_rank_history and the rank-history view applied to a drawn score table
    k_pc, rank_input, rank_histories, cat, show_top_k, lookback_months, latest, topk_tools

mergeVars == <<m_pc, history, new_df, merged, remerged>>
runLocals == <<pc, trends_now, wiki_now, use_wiki, score_hist>>
fileVars  == <<trends_file, wiki_file, score_file>>
raceVars  == <<r_pc, r_now, r_hist, r_new, last_writer>>
normVars  == <<n_pc, series, mm_out, z_out, zmm_out>>
scoreVars == <<s_pc, trends_df, wiki_df, score>>
rankVars  == <<k_pc, rank_input, rank_histories, cat, show_top_k, lookback_months,
               latest, topk_tools>>
vars == <<copy_on_write, mergeVars, runLocals, fileVars, raceVars, normVars,
          scoreVars, rankVars>>

---------------------------------------------------------------------------
(* Bounds *)
MaxVal == 2              \* observed values are 1..MaxVal
MaxLen == 3              \* length of the series handed to the normalisers
MaxScore == 2            \* scores in the table handed to build_rank_history

Months == 1..2                       \* the months a frame can hold

CATEGORIES == [c1 |-> <<"A", "B", "C", "D", "E">>, c2 |-> <<"E">>]

\* sorted({tool for v in CATEGORIES.values() for tool in v})
ALL_TOOLS == UNION {{CATEGORIES[c][i] : i \in 1..Len(CATEGORIES[c])} : c \in DOMAIN CATEGORIES}
ToolOrder == <<"A", "B", "C", "D", "E">>       \* the tool names in sorted order

---------------------------------------------------------------------------
(* float64 values: p * sqrt(r) / q with q > 0, r > 0 *)
Abs(x) == IF x < 0 THEN -x ELSE x

RECURSIVE GCD(_, _)
GCD(a, b) == IF b = 0 THEN a ELSE GCD(b, a % b)

Reduce(p, q, r) ==
    IF p = 0 THEN [p |-> 0, q |-> 1, r |-> 1]
    ELSE LET g == GCD(Abs(p), q) IN [p |-> p \div g, q |-> q \div g, r |-> r]

Float(v) == [p |-> v, q |-> 1, r |-> 1]
Zero == Float(0)
Lt(a, b) == a.p * b.q < b.p * a.q
Add(a, b) == Reduce(a.p * b.q + b.p * a.q, a.q * b.q, IF a.p = 0 THEN b.r ELSE a.r)
Sub(a, b) == Reduce(a.p * b.q - b.p * a.q, a.q * b.q, IF a.p = 0 THEN b.r ELSE a.r)
Mul(a, b) == Reduce(a.p * b.p, a.q * b.q, a.r * b.r)
Div(a, b) ==
    LET sgn == IF b.p < 0 THEN -1 ELSE 1
    IN  IF a.p = 0 \/ a.r = b.r
        THEN Reduce(sgn * a.p * b.q, sgn * a.q * b.p, 1)
        ELSE Reduce(sgn * a.p * b.q, sgn * a.q * b.p * b.r, b.r)

Vals == {Float(v) : v \in 1..MaxVal}

---------------------------------------------------------------------------
(* DataFrames *)
RECURSIVE SortedSeq(_)
SortedSeq(S) ==
    IF S = {} THEN <<>>
    ELSE LET mn == CHOOSE x \in S : \A y \in S : x <= y
         IN  <<mn>> \o SortedSeq(S \ {mn})

Range(q) == {q[i] : i \in 1..Len(q)}

EmptyFrame == [index |-> <<>>, columns |-> {}, cells |-> <<>>]    \* pd.DataFrame()

IsEmpty(df) == Len(df.index) = 0 \/ df.columns = {}               \* df.empty

HasValue(df, m, t) == <<m, t>> \in DOMAIN df.cells

NaN == [p |-> 0, q |-> 0, r |-> 0]        \* not a number: marks a null cell in a drawn input

\* the frame over the months W and the tools C whose cell c holds f[c], null where f[c] is NaN
MkFrame(W, C, f) ==
    [index   |-> SortedSeq(W),
     columns |-> C,
     cells   |-> [c \in {d \in W \X C : f[d] # NaN} |-> f[c]]]

\* every frame over the months M and tools T with values V, index ascending
Frames(M, T, V) ==
    {EmptyFrame} \cup
    UNION {{MkFrame(WC[1], WC[2], f) : f \in [WC[1] \X WC[2] -> V \cup {NaN}]} :
           WC \in ((SUBSET M) \ {{}}) \X ((SUBSET T) \ {{}})}

\* pd.concat([history, new_df]) in place of combine_first: rows are appended
combine_first_concat(h, n) ==
    LET dom == DOMAIN h.cells \cup DOMAIN n.cells
    IN  [index   |-> h.index \o n.index,
         columns |-> h.columns \cup n.columns,
         cells   |-> [c \in dom |-> IF c \in DOMAIN h.cells THEN h.cells[c]
                                    ELSE n.cells[c]]]

\* history.combine_first(new_df): union of both axes, history's value where it
\* has one, new_df's value otherwise; the index is the sorted union
combine_first(h, n) ==
    LET idx  == Range(h.index) \cup Range(n.index)
        cols == h.columns \cup n.columns
        dom  == DOMAIN h.cells \cup DOMAIN n.cells
    IN  [index   |-> SortedSeq(idx),
         columns |-> cols,
         cells   |-> [c \in dom |-> IF c \in DOMAIN h.cells THEN h.cells[c]
                                    ELSE n.cells[c]]]

\* for col in new_df.columns: merged[col].update(new_df[col])
\* Series.update overwrites, in place, with the non-NA values of the other
\* series.  merged[col] is a temporary: without Copy-on-Write it is a view
\* (or cached item) of merged and the write reaches merged; with
\* Copy-on-Write (pandas >= 3, or mode.copy_on_write) the write goes to a
\* copy and merged is left as combine_first built it.
update_columns(m, n) ==
    IF copy_on_write THEN m
    ELSE [m EXCEPT !.cells =
            [c \in DOMAIN m.cells |->
                IF c \in DOMAIN n.cells THEN n.cells[c] ELSE m.cells[c]]]

\* the fresh batch replaces the history
merge_history_replace(h, n) == n

merge_history(h, n) ==
    IF IsEmpty(h) THEN n
    ELSE update_columns(combine_first(h, n), n)

---------------------------------------------------------------------------
(* The history store: one CSV file per key.  A CSV is a header (the tool   *)
(* columns, after the month column) and one row per index entry; a field   *)
(* is <<>> for NaN (written as the empty string) and <<v>> for a value.    *)
ColumnOrder(cols) == SelectSeq(ToolOrder, LAMBDA t : t \in cols)

sort_index(df) == [df EXCEPT !.index = SortedSeq(Range(df.index))]

to_csv(df) ==
    LET hdr == ColumnOrder(df.columns)
    IN  [header |-> hdr,
         rows   |-> [i \in 1..Len(df.index) |->
                       [month  |-> df.index[i],
                        fields |-> [j \in 1..Len(hdr) |->
                                     IF HasValue(df, df.index[i], hdr[j])
                                     THEN <<df.cells[<<df.index[i], hdr[j]>>]>>
                                     ELSE <<>>]]]]

\* pd.read_csv(path, parse_dates=["month"]) followed by set_index("month")
read_csv(csv) ==
    LET rowOf(m) == CHOOSE i \in 1..Len(csv.rows) : csv.rows[i].month = m
        colOf(t) == CHOOSE j \in 1..Len(csv.header) : csv.header[j] = t
        filled == {<<csv.rows[i].month, csv.header[j]>> :
                      <<i, j>> \in {ij \in (1..Len(csv.rows)) \X (1..Len(csv.header)) :
                                       csv.rows[ij[1]].fields[ij[2]] # <<>>}}
    IN  [index   |-> [i \in 1..Len(csv.rows) |-> csv.rows[i].month],
         columns |-> Range(csv.header),
         cells   |-> [c \in filled |-> csv.rows[rowOf(c[1])].fields[colOf(c[2])][1]]]

\* a file is only ever written by save_history, so read_csv does not raise
load_history(file) ==
    IF file = <<>> THEN EmptyFrame
    ELSE sort_index(read_csv(file[1]))

\* a save that re-reads the file and folds its content into what it writes
save_history_merging(file, df) ==
    IF IsEmpty(df) THEN file
    ELSE <<to_csv(sort_index(combine_first(df, load_history(file))))>>

save_history(file, df) ==
    IF IsEmpty(df) THEN file
    ELSE <<to_csv(sort_index(df))>>

---------------------------------------------------------------------------
(* Normalisation and scoring *)
RECURSIVE SumOver(_, _)
SumOver(f, D) ==
    IF D = {} THEN Zero
    ELSE LET m == CHOOSE x \in D : TRUE IN Add(f[m], SumOver(f, D \ {m}))

SeriesMin(s) == CHOOSE v \in {s.vals[m] : m \in DOMAIN s.vals} :
                    \A m \in DOMAIN s.vals : ~Lt(s.vals[m], v)
SeriesMax(s) == CHOOSE v \in {s.vals[m] : m \in DOMAIN s.vals} :
                    \A m \in DOMAIN s.vals : ~Lt(v, s.vals[m])

TimesZero(s) == [s EXCEPT !.vals = [m \in DOMAIN s.vals |-> Zero]]     \* s * 0

\* min-max without the max == min guard: 0/0 is NaN
minmax_norm_noguard(s) ==
    IF DOMAIN s.vals = {} THEN s
    ELSE LET mn == SeriesMin(s)
             mx == SeriesMax(s)
         IN  [s EXCEPT !.vals =
                [m \in {x \in DOMAIN s.vals : mx # mn} |->
                    Div(Sub(s.vals[m], mn), Sub(mx, mn))]]

\* min-max that divides by the maximum instead of the range
minmax_norm_divmax(s) ==
    IF DOMAIN s.vals = {} THEN s
    ELSE LET mn == SeriesMin(s)
             mx == SeriesMax(s)
         IN  IF mx = mn THEN TimesZero(s)
             ELSE [s EXCEPT !.vals =
                     [m \in DOMAIN s.vals |-> Div(Sub(s.vals[m], mn), mx)]]

minmax_norm(s) ==
    IF DOMAIN s.vals = {} THEN s
    ELSE LET mn == SeriesMin(s)
             mx == SeriesMax(s)
         IN  IF mx = mn THEN TimesZero(s)
             ELSE [s EXCEPT !.vals =
                     [m \in DOMAIN s.vals |-> Div(Sub(s.vals[m], mn), Sub(mx, mn))]]

\* sqrt of a non-negative rational vp/vq: sqrt(vp * vq) / vq
Sqrt(v) == IF v.p = 0 THEN Zero ELSE [p |-> 1, q |-> v.q, r |-> v.p * v.q]

zscore_norm(s) ==
    IF DOMAIN s.vals = {} THEN s
    ELSE LET n   == Float(Cardinality(DOMAIN s.vals))
             mu  == Div(SumOver(s.vals, DOMAIN s.vals), n)
             sq  == [m \in DOMAIN s.vals |->
                        Mul(Sub(s.vals[m], mu), Sub(s.vals[m], mu))]
             sd  == Sqrt(Div(SumOver(sq, DOMAIN s.vals), n))          \* std(ddof=0)
         IN  IF sd = Zero THEN TimesZero(s)
             ELSE [s EXCEPT !.vals = [m \in DOMAIN s.vals |-> Div(Sub(s.vals[m], mu), sd)]]

\* df[t]
Column(df, t) ==
    [index |-> df.index,
     vals  |-> [m \in {x \in Range(df.index) : HasValue(df, x, t)} |-> df.cells[<<m, t>>]]]

W_TRENDS == Reduce(6, 10, 1)       \* w_trends=0.6
W_WIKI   == Reduce(4, 10, 1)       \* w_wiki=0.4

\* frame.fillna(0) of a frame over idx and tools whose columns are the given series
FillNa(idx, tools, col) ==
    [c \in idx \X tools |->
        IF c[1] \in DOMAIN col[c[2]].vals THEN col[c[2]].vals[c[1]] ELSE Zero]

NaNSeries(idx) == [index |-> SortedSeq(idx), vals |-> <<>>]

\* the weighted sum without fillna(0): NaN in either term makes the score NaN
compute_scores_nofill(tdf, wdf, w_trends, w_wiki) ==
    LET all_tools   == tdf.columns \cup wdf.columns
        idx         == Range(tdf.index) \cup Range(wdf.index)
        tn(t)       == IF t \in tdf.columns THEN minmax_norm(Column(tdf, t))
                       ELSE NaNSeries(idx)
        wn(t)       == IF t \in wdf.columns THEN minmax_norm(zscore_norm(Column(wdf, t)))
                       ELSE NaNSeries(idx)
    IN  [index   |-> SortedSeq(idx),
         columns |-> all_tools,
         cells   |-> [c \in {d \in idx \X all_tools :
                                d[1] \in DOMAIN tn(d[2]).vals /\ d[1] \in DOMAIN wn(d[2]).vals}
                        |-> Add(Mul(w_trends, tn(c[2]).vals[c[1]]),
                                Mul(w_wiki, wn(c[2]).vals[c[1]]))]]

compute_scores(tdf, wdf, w_trends, w_wiki) ==
    LET all_tools   == tdf.columns \cup wdf.columns
        idx         == Range(tdf.index) \cup Range(wdf.index)
        trends_norm == [t \in all_tools |->
                          IF t \in tdf.columns THEN minmax_norm(Column(tdf, t))
                          ELSE NaNSeries(idx)]
        wiki_norm   == [t \in all_tools |->
                          IF t \in wdf.columns
                          THEN minmax_norm(zscore_norm(Column(wdf, t)))
                          ELSE NaNSeries(idx)]
        tn          == FillNa(idx, all_tools, trends_norm)
        wn          == FillNa(idx, all_tools, wiki_norm)
    IN  [index   |-> SortedSeq(idx),
         columns |-> all_tools,
         cells   |-> [c \in idx \X all_tools |->
                        Add(Mul(w_trends, tn[c]), Mul(w_wiki, wn[c]))]]

---------------------------------------------------------------------------
(* Rank history and the rank-history view *)
Neg(a) == [a EXCEPT !.p = -a.p]

\* rank(method="min"): a value's rank is 1 + the number of smaller entries
MinRankRow(sub, m, cols) ==
    LET scored == {t \in cols : HasValue(sub, m, t)}
        neg    == [t \in scored |-> Neg(sub.cells[<<m, t>>])]
    IN  [t \in scored |-> 1 + Cardinality({x \in scored : Lt(neg[x], neg[t])})]

\* (-row).rank(method="dense") for the row of month m over the columns cols:
\* NaN keeps NaN; a value's rank is its position among the distinct negated
\* values in ascending order
DenseRankRow(sub, m, cols) ==
    LET scored == {t \in cols : HasValue(sub, m, t)}
        neg    == [t \in scored |-> Neg(sub.cells[<<m, t>>])]
    IN  [t \in scored |->
            Cardinality({neg[u] : u \in {x \in scored : ~Lt(neg[t], neg[x])}})]

build_rank_history(sh, categories) ==
    IF IsEmpty(sh) THEN <<>>
    ELSE [c \in DOMAIN categories |->
            LET cols == {t \in Range(categories[c]) : t \in sh.columns}
            IN  IF cols = {} THEN EmptyFrame
                ELSE LET ranks == [m \in Range(sh.index) |-> DenseRankRow(sh, m, cols)]
                     IN  [index   |-> sh.index,
                          columns |-> cols,
                          cells   |-> [x \in {y \in Range(sh.index) \X cols :
                                                 y[2] \in DOMAIN ranks[y[1]]}
                                         |-> ranks[x[1]][x[2]]]]]

\* rdf.iloc[-lookback:] when len(rdf) > lookback
TailRows(df, n) ==
    IF Len(df.index) > n
    THEN LET idx == SubSeq(df.index, Len(df.index) - n + 1, Len(df.index))
         IN  [index   |-> idx,
              columns |-> df.columns,
              cells   |-> [c \in {d \in DOMAIN df.cells : d[1] \in Range(idx)} |-> df.cells[c]]]
    ELSE df

\* rdf.iloc[-1].dropna(): the non-null ranks of the last row
LastRow(df) ==
    LET m == df.index[Len(df.index)]
    IN  [t \in {u \in df.columns : HasValue(df, m, u)} |-> df.cells[<<m, t>>]]

\* the row's tools in any order: sort_values() left out
AnyOrders(row) ==
    {o \in [1..Cardinality(DOMAIN row) -> DOMAIN row] :
        \A i \in DOMAIN o : \A j \in DOMAIN o : i # j => o[i] # o[j]}

\* sort_values(): the orders an ascending sort of the row can produce (the
\* order among equal ranks is the sort algorithm's)
SortedOrders(row) ==
    {o \in [1..Cardinality(DOMAIN row) -> DOMAIN row] :
        /\ \A i \in DOMAIN o : \A j \in DOMAIN o : i # j => o[i] # o[j]
        /\ \A i \in DOMAIN o : \A j \in DOMAIN o : i < j => row[o[i]] <= row[o[j]]}

\* latest.index[:show_top_k].tolist()
FirstK(o, k) == SubSeq(o, 1, IF k < Len(o) THEN k ELSE Len(o))

TopKMin == 3
TopKMax == 10
LookbackDefault == 24

Min2(a, b) == IF a < b THEN a ELSE b

---------------------------------------------------------------------------
(* Resting values of the variables a specification does not use *)
IdleMerge ==
    /\ m_pc = "idle"
    /\ history = EmptyFrame /\ new_df = EmptyFrame
    /\ merged = EmptyFrame /\ remerged = EmptyFrame

IdleRun ==
    /\ pc = "idle"
    /\ trends_now = EmptyFrame /\ wiki_now = EmptyFrame
    /\ use_wiki = TRUE /\ score_hist = EmptyFrame

NoFiles == trends_file = <<>> /\ wiki_file = <<>> /\ score_file = <<>>

Procs == {1, 2}

IdleRace ==
    /\ r_pc = [p \in Procs |-> "idle"]
    /\ r_now = [p \in Procs |-> EmptyFrame]
    /\ r_hist = [p \in Procs |-> EmptyFrame]
    /\ r_new = [p \in Procs |-> EmptyFrame]
    /\ last_writer = 0

EmptySeries == [index |-> <<>>, vals |-> <<>>]

IdleNorm ==
    /\ n_pc = "idle"
    /\ series = EmptySeries /\ mm_out = EmptySeries
    /\ z_out = EmptySeries /\ zmm_out = EmptySeries

IdleScore ==
    /\ s_pc = "idle"
    /\ trends_df = EmptyFrame /\ wiki_df = EmptyFrame /\ score = EmptyFrame

IdleRank ==
    /\ k_pc = "idle"
    /\ rank_input = EmptyFrame /\ rank_histories = <<>>
    /\ cat = "c1" /\ show_top_k = TopKMin /\ lookback_months = LookbackDefault
    /\ latest = <<>> /\ topk_tools = <<>>

---------------------------------------------------------------------------
(* merge_history applied to drawn inputs *)
FetchedTools == {"A", "B"}
MergeInputs == Frames(Months, FetchedTools, Vals)

InitMerge ==
    /\ copy_on_write \in BOOLEAN
    /\ m_pc = "start"
    /\ history \in MergeInputs
    /\ new_df \in MergeInputs
    /\ merged = EmptyFrame
    /\ remerged = EmptyFrame
    /\ IdleRun /\ NoFiles /\ IdleRace /\ IdleNorm /\ IdleScore /\ IdleRank

Merge ==
    /\ m_pc = "start"
    /\ merged' = merge_history(history, new_df)
    /\ m_pc' = "merged"
    /\ UNCHANGED <<copy_on_write, history, new_df, remerged, runLocals, fileVars,
                   raceVars, normVars, scoreVars, rankVars>>

Remerge ==
    /\ m_pc = "merged"
    /\ remerged' = merge_history(history, merged)
    /\ m_pc' = "remerged"
    /\ UNCHANGED <<copy_on_write, history, new_df, merged, runLocals, fileVars,
                   raceVars, normVars, scoreVars, rankVars>>

NextMerge == Merge \/ Remerge

SpecMerge == InitMerge /\ [][NextMerge]_vars

---------------------------------------------------------------------------
(* One run of the script after another (lines 302-332) *)
PipeTools == {"A"}
PipeTrendBatches == Frames(Months, PipeTools, Vals)
TrendBatches == Frames(Months, FetchedTools, Vals)

\* fetch_wiki_map: one column per key of WIKI_MAP (every tracked tool), a row
\* for every month some page has views in; only the pages of `tools` answer
WikiBatches ==
    {[index   |-> SortedSeq({c[1] : c \in {d \in DOMAIN f : f[d] # NaN}}),
      columns |-> ALL_TOOLS,
      cells   |-> [c \in {d \in DOMAIN f : f[d] # NaN} |-> f[c]]] :
        f \in [Months \X PipeTools -> Vals \cup {NaN}]}

InitRun ==
    /\ copy_on_write \in BOOLEAN
    /\ IdleRun /\ NoFiles
    /\ IdleMerge /\ IdleRace /\ IdleNorm /\ IdleScore /\ IdleRank

\* lines 302-309: this run's batches
Fetch(tbatches, wbatches, wikiChoices) ==
    /\ pc = "idle"
    /\ \E tb \in tbatches, wb \in wbatches, uw \in wikiChoices :
          /\ trends_now' = tb
          /\ use_wiki' = uw
          /\ wiki_now' = IF uw THEN wb ELSE EmptyFrame
    /\ pc' = "fetched"
    /\ UNCHANGED <<copy_on_write, score_hist, fileVars, mergeVars, raceVars,
                   normVars, scoreVars, rankVars>>

\* lines 318-332: load, merge, save the two histories; compute and save the scores
RunBody ==
    /\ pc = "fetched"
    /\ \E hist_trends \in {load_history(trends_file)},
          hist_wiki \in {load_history(wiki_file)} :
        \E trends_hist_new \in {IF ~IsEmpty(trends_now)
                                THEN merge_history(hist_trends, trends_now)
                                ELSE hist_trends},
           wiki_hist_new \in {IF ~IsEmpty(wiki_now)
                              THEN merge_history(hist_wiki, wiki_now)
                              ELSE hist_wiki} :
          /\ trends_file' = save_history(trends_file, trends_hist_new)
          /\ wiki_file' = IF use_wiki THEN save_history(wiki_file, wiki_hist_new)
                          ELSE wiki_file
          /\ score_hist' = compute_scores(
                               IF ~IsEmpty(trends_hist_new) THEN trends_hist_new ELSE EmptyFrame,
                               IF ~IsEmpty(wiki_hist_new) THEN wiki_hist_new ELSE EmptyFrame,
                               W_TRENDS, W_WIKI)
          /\ score_file' = save_history(score_file, score_hist')
    /\ pc' = "done"
    /\ UNCHANGED <<copy_on_write, trends_now, wiki_now, use_wiki, mergeVars, raceVars,
                   normVars, scoreVars, rankVars>>

\* the script ends: its locals are gone, the files stay
EndRun ==
    /\ pc = "done"
    /\ pc' = "idle"
    /\ trends_now' = EmptyFrame /\ wiki_now' = EmptyFrame
    /\ use_wiki' = TRUE /\ score_hist' = EmptyFrame
    /\ UNCHANGED <<copy_on_write, fileVars, mergeVars, raceVars, normVars,
                   scoreVars, rankVars>>

Init == InitRun
Next ==
    \/ Fetch(PipeTrendBatches, WikiBatches, BOOLEAN)
    \/ RunBody
    \/ EndRun
Spec == Init /\ [][Next]_vars

\* runs that only ever fetch the bounded signal, over two tools
NextHistory ==
    \/ Fetch(TrendBatches, {EmptyFrame}, {FALSE})
    \/ RunBody
    \/ EndRun
SpecHistory == InitRun /\ [][NextHistory]_vars

\* the persisted table, as the file holds it
Stored(file) == IF file = <<>> THEN EmptyFrame ELSE read_csv(file[1])

Ascending(q) == \A i \in 1..Len(q) : \A j \in 1..Len(q) : i < j => q[i] < q[j]

---------------------------------------------------------------------------
(* Two invocations of the script against the same trends history file.     *)
(* Nothing locks the file: each invocation fetches, loads, merges and      *)
(* saves, and the steps of the two interleave freely.                      *)
InitRace ==
    /\ copy_on_write \in BOOLEAN
    /\ r_pc = [p \in Procs |-> "fetch"]
    /\ r_now = [p \in Procs |-> EmptyFrame]
    /\ r_hist = [p \in Procs |-> EmptyFrame]
    /\ r_new = [p \in Procs |-> EmptyFrame]
    /\ last_writer = 0
    /\ NoFiles /\ IdleRun /\ IdleMerge /\ IdleNorm /\ IdleScore /\ IdleRank

raceRest == <<copy_on_write, mergeVars, runLocals, wiki_file, score_file, normVars,
              scoreVars, rankVars>>

\* line 303
RaceFetch(p) ==
    /\ r_pc[p] = "fetch"
    /\ \E tb \in PipeTrendBatches : r_now' = [r_now EXCEPT ![p] = tb]
    /\ r_pc' = [r_pc EXCEPT ![p] = "load"]
    /\ UNCHANGED <<r_hist, r_new, last_writer, trends_file, raceRest>>

\* line 318
RaceLoad(p) ==
    /\ r_pc[p] = "load"
    /\ r_hist' = [r_hist EXCEPT ![p] = load_history(trends_file)]
    /\ r_pc' = [r_pc EXCEPT ![p] = "merge"]
    /\ UNCHANGED <<r_now, r_new, last_writer, trends_file, raceRest>>

\* line 321
RaceMerge(p) ==
    /\ r_pc[p] = "merge"
    /\ r_new' = [r_new EXCEPT ![p] = IF ~IsEmpty(r_now[p])
                                     THEN merge_history(r_hist[p], r_now[p])
                                     ELSE r_hist[p]]
    /\ r_pc' = [r_pc EXCEPT ![p] = "save"]
    /\ UNCHANGED <<r_now, r_hist, last_writer, trends_file, raceRest>>

\* line 324
RaceSave(p) ==
    /\ r_pc[p] = "save"
    /\ trends_file' = save_history(trends_file, r_new[p])
    /\ last_writer' = IF IsEmpty(r_new[p]) THEN last_writer ELSE p
    /\ r_pc' = [r_pc EXCEPT ![p] = "done"]
    /\ UNCHANGED <<r_now, r_hist, r_new, raceRest>>

NextRace == \E p \in Procs : RaceFetch(p) \/ RaceLoad(p) \/ RaceMerge(p) \/ RaceSave(p)

SpecRace == InitRace /\ [][NextRace]_vars

---------------------------------------------------------------------------
(* The normalisers applied to a drawn series *)
SeriesVals == {Float(v) : v \in 0..MaxVal}

SeriesInputs ==
    UNION {{[index |-> [i \in 1..n |-> i],
             vals  |-> [m \in {x \in 1..n : f[x] # NaN} |-> f[m]]] :
              f \in [1..n -> SeriesVals \cup {NaN}]} : n \in 1..MaxLen}

InitNorm ==
    /\ copy_on_write = FALSE
    /\ n_pc = "start"
    /\ series \in SeriesInputs
    /\ mm_out = EmptySeries /\ z_out = EmptySeries /\ zmm_out = EmptySeries
    /\ NoFiles /\ IdleRun /\ IdleMerge /\ IdleRace /\ IdleScore /\ IdleRank

normRest == <<copy_on_write, mergeVars, runLocals, fileVars, raceVars, scoreVars, rankVars>>

MinMax ==
    /\ n_pc = "start"
    /\ mm_out' = minmax_norm(series)
    /\ n_pc' = "minmax"
    /\ UNCHANGED <<series, z_out, zmm_out, normRest>>

ZScore ==
    /\ n_pc = "minmax"
    /\ z_out' = zscore_norm(series)
    /\ n_pc' = "zscore"
    /\ UNCHANGED <<series, mm_out, zmm_out, normRest>>

ZScoreMinMax ==
    /\ n_pc = "zscore"
    /\ zmm_out' = minmax_norm(z_out)
    /\ n_pc' = "done"
    /\ UNCHANGED <<series, mm_out, z_out, normRest>>

NextNorm == MinMax \/ ZScore \/ ZScoreMinMax

SpecNorm == InitNorm /\ [][NextNorm]_vars

---------------------------------------------------------------------------
(* compute_scores applied to drawn frames *)
ScoreInputs == Frames(Months, FetchedTools, Vals)

InitScore ==
    /\ copy_on_write = FALSE
    /\ s_pc = "start"
    /\ trends_df \in ScoreInputs
    /\ wiki_df \in ScoreInputs
    /\ score = EmptyFrame
    /\ NoFiles /\ IdleRun /\ IdleMerge /\ IdleRace /\ IdleNorm /\ IdleRank

ComputeScores ==
    /\ s_pc = "start"
    /\ score' = compute_scores(trends_df, wiki_df, W_TRENDS, W_WIKI)
    /\ s_pc' = "done"
    /\ UNCHANGED <<trends_df, wiki_df, copy_on_write, mergeVars, runLocals, fileVars,
                   raceVars, normVars, rankVars>>

NextScore == ComputeScores

SpecScore == InitScore /\ [][NextScore]_vars

---------------------------------------------------------------------------
(* build_rank_history and the rank-history view applied to a drawn score table *)
RankTools == {"A", "B", "C", "D"}
ScoreLevels == {Float(v) : v \in 1..MaxScore}

\* the score tables drawn: no table, or a table over some months with every
\* tool of RankTools as a column, each cell a score level or null
IsRankInput(df) ==
    \/ df = EmptyFrame
    \/ \E W \in (SUBSET Months) \ {{}} :
          \E f \in [W \X RankTools -> ScoreLevels \cup {NaN}] : df = MkFrame(W, RankTools, f)

InitRank ==
    /\ copy_on_write = FALSE
    /\ k_pc = "start"
    /\ IsRankInput(rank_input)
    /\ rank_histories = <<>>
    /\ cat = "c1" /\ show_top_k = TopKMin /\ lookback_months = LookbackDefault
    /\ latest = <<>> /\ topk_tools = <<>>
    /\ NoFiles /\ IdleRun /\ IdleMerge /\ IdleRace /\ IdleNorm /\ IdleScore

rankRest == <<copy_on_write, mergeVars, runLocals, fileVars, raceVars, normVars, scoreVars>>

\* line 335
BuildRanks ==
    /\ k_pc = "start"
    /\ rank_histories' = build_rank_history(rank_input, CATEGORIES)
    /\ k_pc' = "ranked"
    /\ UNCHANGED <<rank_input, cat, show_top_k, lookback_months, latest, topk_tools, rankRest>>

\* lines 395-414: the chosen category's latest ranks and its top-K tools
RankView ==
    /\ k_pc = "ranked"
    /\ ~IsEmpty(rank_input) /\ DOMAIN rank_histories # {}
    /\ \E c \in DOMAIN CATEGORIES :
       \E k \in TopKMin..Min2(TopKMax, Len(CATEGORIES[c])) :
          /\ c \in DOMAIN rank_histories
          /\ ~IsEmpty(rank_histories[c])
          /\ cat' = c
          /\ show_top_k' = k
          /\ lookback_months' = LookbackDefault
          /\ \E row \in {LastRow(TailRows(sort_index(rank_histories[c]), LookbackDefault))} :
             \E o \in SortedOrders(row) :
                /\ latest' = [i \in 1..Len(o) |-> <<o[i], row[o[i]]>>]
                /\ topk_tools' = FirstK(o, k)
    /\ k_pc' = "viewed"
    /\ UNCHANGED <<rank_input, rank_histories, rankRest>>

NextRank == BuildRanks \/ RankView

SpecRank == InitRank /\ [][NextRank]_vars

---------------------------------------------------------------------------
(* Properties *)
CellsOf(df) == DOMAIN df.cells
One == Float(1)
Leq(a, b) == ~Lt(b, a)

\* C1: with a non-empty history, every cell that has a value in both the
\* history and the fresh batch holds the fresh batch's value after the merge.
C1_FreshWins ==
    (m_pc # "start" /\ ~IsEmpty(history)) =>
        \A c \in CellsOf(history) \cap CellsOf(new_df) :
            c \in CellsOf(merged) /\ merged.cells[c] = new_df.cells[c]

C3_MergeIdempotent ==
    m_pc = "remerged" => remerged = merged

\* re-merged a non-empty history whose overlap with the batch disagrees and
\* whose batch brings a new month
C3_Witness ==
    /\ m_pc = "remerged"
    /\ ~IsEmpty(history)
    /\ \E c \in CellsOf(history) \cap CellsOf(new_df) : history.cells[c] # new_df.cells[c]
    /\ \E m \in Range(new_df.index) : m \notin Range(history.index)

\* the normalised value of the §4.2 contract at a cell: 0 without a value or
\* for a constant column, (x - min) / (max - min) otherwise
ExpectedNorm(df, m, t) ==
    IF ~(t \in df.columns /\ HasValue(df, m, t)) THEN Zero
    ELSE LET col == {df.cells[c] : c \in {d \in CellsOf(df) : d[2] = t}}
             lo  == CHOOSE v \in col : \A w \in col : Leq(v, w)
             hi  == CHOOSE v \in col : \A w \in col : Leq(w, v)
         IN  IF lo = hi THEN Zero
             ELSE Div(Sub(df.cells[<<m, t>>], lo), Sub(hi, lo))

\* C4: the score table covers the union of the months and the union of the
\* tools, every cell holds w_trends * normTrends + w_wiki * normWiki, and a
\* source without a value or a column at the cell contributes exactly 0.
C4_ScoreComposition ==
    s_pc = "done" =>
        /\ Range(score.index) = Range(trends_df.index) \cup Range(wiki_df.index)
        /\ score.columns = trends_df.columns \cup wiki_df.columns
        /\ \A m \in Range(score.index) : \A t \in score.columns :
              /\ HasValue(score, m, t)
              /\ score.cells[<<m, t>>] =
                    Add(Mul(W_TRENDS, ExpectedNorm(trends_df, m, t)),
                        Mul(W_WIKI, ExpectedNorm(wiki_df, m, t)))
              /\ (t \notin wiki_df.columns \/ ~HasValue(wiki_df, m, t)) =>
                    score.cells[<<m, t>>] = Mul(W_TRENDS, ExpectedNorm(trends_df, m, t))

\* a tool with a trends value and no wiki column scored w_trends * 1
C4_Witness ==
    /\ s_pc = "done"
    /\ \E t \in trends_df.columns \ wiki_df.columns : \E m \in Range(trends_df.index) :
          /\ HasValue(trends_df, m, t)
          /\ wiki_df.columns # {}
          /\ score.cells[<<m, t>>] = W_TRENDS

ExampleScores ==
    [index |-> <<1>>, columns |-> {"A", "B", "C", "D"},
     cells |-> [c \in {1} \X {"A", "B", "C", "D"} |->
                  IF c[2] \in {"A", "B"} THEN Float(10)
                  ELSE IF c[2] = "C" THEN Float(7) ELSE Float(5)]]

ExampleScoresRanked ==
    build_rank_history(ExampleScores, CATEGORIES).c1.cells =
        [c \in {1} \X {"A", "B", "C", "D"} |->
            IF c[2] \in {"A", "B"} THEN 1 ELSE IF c[2] = "C" THEN 2 ELSE 3]

\* C5: per month and category, a scored tool's rank is 1 + the number of
\* distinct scores strictly greater than its own among the category's tools
\* that are columns; a tool without a score has no rank; a category without
\* columns has an empty table; scores [10, 10, 7, 5] rank [1, 1, 2, 3].
C5_DenseRanks ==
    (k_pc # "start" /\ ~IsEmpty(rank_input)) =>
        /\ \A c \in DOMAIN CATEGORIES :
              \A cols \in {Range(CATEGORIES[c]) \cap rank_input.columns} :
                IF cols = {} THEN rank_histories[c] = EmptyFrame
                ELSE /\ rank_histories[c].columns = cols
                     /\ rank_histories[c].index = rank_input.index
                     /\ \A m \in Range(rank_input.index) : \A t \in cols :
                          IF HasValue(rank_input, m, t)
                          THEN /\ HasValue(rank_histories[c], m, t)
                               /\ rank_histories[c].cells[<<m, t>>] =
                                    1 + Cardinality({rank_input.cells[<<m, u>>] :
                                          u \in {x \in cols :
                                                   /\ HasValue(rank_input, m, x)
                                                   /\ Lt(rank_input.cells[<<m, t>>],
                                                         rank_input.cells[<<m, x>>])}})
                          ELSE ~HasValue(rank_histories[c], m, t)
        /\ ExampleScoresRanked

\* ranked a month with a tie, a lower score and a tool without a score
C5_Witness ==
    /\ k_pc = "ranked"
    /\ \E m \in Range(rank_input.index) :
          /\ ~HasValue(rank_input, m, "D")
          /\ HasValue(rank_histories.c1, m, "A") /\ rank_histories.c1.cells[<<m, "A">>] = 1
          /\ HasValue(rank_histories.c1, m, "B") /\ rank_histories.c1.cells[<<m, "B">>] = 1
          /\ HasValue(rank_histories.c1, m, "C") /\ rank_histories.c1.cells[<<m, "C">>] = 2

AllNonNull(s) == DOMAIN s.vals = Range(s.index)
IsConstant(s) ==
    /\ Len(s.index) >= 1
    /\ AllNonNull(s)
    /\ \A m \in DOMAIN s.vals : \A n \in DOMAIN s.vals : s.vals[m] = s.vals[n]
AllZero(s, out) ==
    /\ out.index = s.index
    /\ out.vals = [m \in Range(s.index) |-> Zero]

\* C6: a single-value or constant series normalises to all-zero, under
\* min-max and under z-score followed by min-max: every entry is 0, none NaN.
C6_DegenerateIsZero ==
    (n_pc = "done" /\ IsConstant(series)) =>
        AllZero(series, mm_out) /\ AllZero(series, zmm_out)

\* normalised a constant series of two or more non-zero entries
C6_Witness ==
    /\ n_pc = "done"
    /\ IsConstant(series)
    /\ Len(series.index) >= 2
    /\ \A m \in DOMAIN series.vals : series.vals[m] # Zero

Distinct(s) == {s.vals[m] : m \in DOMAIN s.vals}

\* C7: for a series with two or more distinct values, min-max maps every
\* value into [0, 1], every maximum to 1, every minimum to 0, and keeps order.
C7_MinMaxRange ==
    (n_pc # "start" /\ Cardinality(Distinct(series)) >= 2) =>
        /\ DOMAIN mm_out.vals = DOMAIN series.vals
        /\ \A m \in DOMAIN series.vals :
              /\ Leq(Zero, mm_out.vals[m]) /\ Leq(mm_out.vals[m], One)
              /\ (\A n \in DOMAIN series.vals : Leq(series.vals[n], series.vals[m]))
                    => mm_out.vals[m] = One
              /\ (\A n \in DOMAIN series.vals : Leq(series.vals[m], series.vals[n]))
                    => mm_out.vals[m] = Zero
              /\ \A n \in DOMAIN series.vals :
                    Leq(series.vals[m], series.vals[n]) => Leq(mm_out.vals[m], mm_out.vals[n])

\* min-max applied to a series with three distinct values, a non-zero minimum and a NaN
C7_Witness ==
    /\ n_pc = "minmax"
    /\ Cardinality(Distinct(series)) >= 2
    /\ ~AllNonNull(series)
    /\ \A m \in DOMAIN series.vals : series.vals[m] # Zero
    /\ \E m \in DOMAIN mm_out.vals : mm_out.vals[m] = One

ExampleRanks == [t \in {"A", "B", "C", "D"} |->
                    IF t = "A" THEN 1 ELSE IF t = "D" THEN 4 ELSE 2]  \* E is null

ExampleTopK == \A o \in SortedOrders(ExampleRanks) : Range(FirstK(o, 3)) = {"A", "B", "C"}

\* the non-null ranks of the latest month of the viewed category
LatestRanks ==
    LET rdf == rank_histories[cat]
        mx  == CHOOSE m \in Range(rdf.index) : \A y \in Range(rdf.index) : y <= m
    IN  [t \in {u \in rdf.columns : HasValue(rdf, mx, u)} |-> rdf.cells[<<mx, t>>]]

\* C8: the view keeps the first min(K, number of ranked tools) tools of the
\* latest month's non-null ranks in ascending order: only ranked tools, and
\* none left out has a strictly smaller rank than one kept;
\* {A:1, B:2, C:2, D:4, E:null} with K = 3 keeps exactly {A, B, C}.
C8_TopK ==
    /\ k_pc = "viewed" =>
        \A row \in {LatestRanks} :
            /\ Len(topk_tools) = Min2(show_top_k, Cardinality(DOMAIN row))
            /\ topk_tools = SubSeq([i \in 1..Len(latest) |-> latest[i][1]], 1, Len(topk_tools))
            /\ \A i \in 1..Len(latest) : \A j \in 1..Len(latest) :
                  i < j => latest[i][1] # latest[j][1] /\ latest[i][2] <= latest[j][2]
            /\ {latest[i][1] : i \in 1..Len(latest)} = DOMAIN row
            /\ \A i \in 1..Len(latest) : latest[i][2] = row[latest[i][1]]
            /\ Range(topk_tools) \subseteq DOMAIN row
            /\ \A u \in DOMAIN row \ Range(topk_tools) : \A t \in Range(topk_tools) :
                  ~(row[u] < row[t])
    /\ ExampleTopK

\* viewed two months whose latest ranks all four tools, with K = 3 cutting one off
C8_Witness ==
    /\ k_pc = "viewed"
    /\ show_top_k = 3
    /\ Len(rank_input.index) = 2
    /\ Len(latest) = 4
    /\ Len(topk_tools) = 3
    /\ latest[3][2] < latest[4][2]
    /\ \E t \in RankTools : ~HasValue(rank_input, 1, t)

\* merge of the §4.1 contract: fresh alone for an empty history, otherwise
\* the union of months and tools, fresh's value wherever fresh has one
MergeContract(h, f) ==
    IF IsEmpty(h) THEN f
    ELSE [index   |-> SortedSeq(Range(h.index) \cup Range(f.index)),
          columns |-> h.columns \cup f.columns,
          cells   |-> [c \in CellsOf(h) \cup CellsOf(f) |->
                         IF c \in CellsOf(f) THEN f.cells[c] ELSE h.cells[c]]]

BothDone == \A p \in Procs : r_pc[p] = "done"

\* C10: the file holds the merge result of the invocation that wrote last,
\* computed from the history it loaded; when both invocations loaded before
\* either saved, what only the other one fetched is absent at the end; when
\* one loaded what the other had saved, both batches' cells are present.
C10_LastWriterWins ==
    /\ \A p \in Procs : last_writer = p => Stored(trends_file) = r_new[p]
    /\ \A p \in Procs : \A q \in Procs \ {p} :
          /\ (BothDone /\ last_writer = q /\ IsEmpty(r_hist[p]) /\ IsEmpty(r_hist[q])) =>
                \A c \in CellsOf(r_now[p]) \ CellsOf(r_now[q]) :
                    c \notin CellsOf(Stored(trends_file))
          /\ (BothDone /\ IsEmpty(r_hist[p]) /\ ~IsEmpty(r_now[p]) /\ r_hist[q] = r_new[p]) =>
                CellsOf(r_now[p]) \cup CellsOf(r_now[q]) \subseteq CellsOf(Stored(trends_file))

\* both invocations wrote, both had loaded an empty history, and a value only
\* the first writer fetched is gone
C10_Witness ==
    /\ BothDone
    /\ last_writer = 2
    /\ IsEmpty(r_hist[1]) /\ IsEmpty(r_hist[2])
    /\ ~IsEmpty(r_now[1])
    /\ \E c \in CellsOf(r_now[1]) : c \notin CellsOf(Stored(trends_file))

=============================================================================
